---- MODULE Spec2Model ----
(***************************************************************************)
(* Model of logitech.py: capacity-bounded storage units (bins, trucks),    *)
(* the warehouse controller's best-fit placement, its include-first        *)
(* loader, the LIFO loading stack with rollback, and the shipment log      *)
(* written through a transactional database connection.                    *)
(*                                                                         *)
(* Python's None is modelled as the empty sequence and a present value v   *)
(* as <<v>>, so that an optional value never compares an integer with a    *)
(* string.  Indices returned by find_best_fit_bin and taken by try_load    *)
(* are 0-based as in the source; sequences are 1-based, hence the "+ 1"    *)
(* at every subscript.                                                     *)
(***************************************************************************)
EXTENDS Integers, Sequences, FiniteSets, TLC

VARIABLES
    bin_inventory,   \* WarehouseController.bin_inventory: bins, sorted by capacity
    queue_incoming,  \* WarehouseController.queue_incoming: FIFO of packages
    stack_loading,   \* WarehouseController.stack_loading: LIFO of (truck, package)
    trucks,          \* the Truck objects of the caller: truck_id -> storage unit
    db_committed,    \* rows of shipment_logs that a commit has made durable
    db_pending,      \* rows inserted in the open transaction, not yet committed
    unit,            \* a single StorageUnit driven directly (unit-level runs)
    pc,              \* position in main() (demo run)
    last             \* the operation that produced this state, its inputs and outcome

vars == <<bin_inventory, queue_incoming, stack_loading, trucks,
          db_committed, db_pending, unit, pc, last>>

----------------------------------------------------------------------------
(* Bounds of the bounded runs. *)

\* controller runs (Spec)
MaxBins == 2        \* rows of bin_configuration
MaxCap == 2         \* largest bin capacity
MaxSize == 2        \* largest package size
MaxPkgs == 2        \* distinct tracking ids
MaxQueue == 1       \* packages waiting in queue_incoming
MaxFragile == 2     \* length of the list handed to load_fragile
MaxLog == 2         \* committed rows of shipment_logs
MaxCount == 2       \* largest count handed to rollback
TruckCap == 2       \* capacity of the (smallest) truck
\* loading-stack runs (SpecTrucks)
MaxTrucks == 2      \* trucks of the caller, of capacity TruckCap, TruckCap + 1, ...
\* unit-level runs (SpecUnit)
UnitMaxCap == 4
UnitMaxAmount == 5
\* best-fit runs (SpecFit)
FitMaxBins == 4
FitMaxCap == 3
\* loader runs (SpecLoad)
LoadMaxLen == 4
LoadMaxSize == 3
LoadMaxBudget == 6

None == <<>>
Some(v) == <<v>>

Max(a, b) == IF a >= b THEN a ELSE b
Min(a, b) == IF a <= b THEN a ELSE b

RECURSIVE SumSizes(_)
\* total size of a sequence of packages
SumSizes(ps) == IF ps = <<>> THEN 0 ELSE ps[1].size + SumSizes(Tail(ps))

\* all sequences over S of length 0..n
SeqsUpTo(S, n) == UNION {[1..k -> S] : k \in 0..n}

----------------------------------------------------------------------------
(* StorageUnit *)

\* StorageUnit.__init__
StorageUnit(capacity) == [capacity |-> capacity, used_space |-> 0]

\* occupy_space without its capacity check
occupy_space_unchecked(u, amount) ==
    [ok |-> TRUE, unit |-> [u EXCEPT !.used_space = @ + amount]]

\* occupy_space refusing an exact fit (>= for >)
occupy_space_strict(u, amount) ==
    IF u.used_space + amount >= u.capacity
    THEN [ok |-> FALSE, unit |-> u]
    ELSE [ok |-> TRUE, unit |-> [u EXCEPT !.used_space = @ + amount]]

\* StorageUnit.occupy_space: ok = FALSE is the raised ValueError
occupy_space(u, amount) ==
    IF u.used_space + amount > u.capacity
    THEN [ok |-> FALSE, unit |-> u]
    ELSE [ok |-> TRUE, unit |-> [u EXCEPT !.used_space = @ + amount]]

\* free_space clamping from the wrong side (min for max)
free_space_min(u, amount) == [u EXCEPT !.used_space = Min(0, @ - amount)]

\* StorageUnit.free_space
free_space(u, amount) == [u EXCEPT !.used_space = Max(0, @ - amount)]

\* remaining_space forgetting what is already used
remaining_space_cap(u) == u.capacity

\* StorageUnit.remaining_space
remaining_space(u) == u.capacity - u.used_space

\* StorageBin.__init__
StorageBin(bin_id, capacity) ==
    [bin_id |-> bin_id, capacity |-> capacity, used_space |-> 0]

\* Package.__init__ (destination plays no part in any operation)
Package(tracking_id, size) == [tracking_id |-> tracking_id, size |-> size]

----------------------------------------------------------------------------
(* load_bins_from_db *)

RECURSIVE InsertByCapacity(_, _)
\* one step of the stable sort by capacity: b goes after every bin with capacity <= its own
InsertByCapacity(b, sorted) ==
    IF sorted = <<>> THEN <<b>>
    ELSE IF b.capacity < sorted[1].capacity THEN <<b>> \o sorted
    ELSE <<sorted[1]>> \o InsertByCapacity(b, Tail(sorted))

RECURSIVE SortByCapacity(_)
\* list.sort(key=lambda b: b.capacity): stable, ascending
SortByCapacity(bins) ==
    IF bins = <<>> THEN <<>>
    ELSE InsertByCapacity(bins[Len(bins)], SortByCapacity(SubSeq(bins, 1, Len(bins) - 1)))

\* rows of bin_configuration in rowid order: row i has bin_id i and capacity caps[i]
load_bins_from_db(caps) ==
    SortByCapacity([i \in 1..Len(caps) |-> StorageBin(i, caps[i])])

\* the demo rows inserted into an empty bin_configuration table
DemoCaps == <<10, 20, 50, 100>>

----------------------------------------------------------------------------
(* find_best_fit_bin *)

RECURSIVE BestFitLoopGt(_, _, _, _, _)
\* the loop taking only bins strictly larger than the package (> for >=)
BestFitLoopGt(bins, pkg_size, low, high, ans) ==
    IF low <= high
    THEN LET mid == (low + high) \div 2 IN
         IF bins[mid + 1].capacity > pkg_size
         THEN BestFitLoopGt(bins, pkg_size, low, mid - 1, mid)
         ELSE BestFitLoopGt(bins, pkg_size, mid + 1, high, ans)
    ELSE ans

RECURSIVE BestFitLoopRemaining(_, _, _, _, _)
\* the loop comparing the package with the bin's remaining space, not its capacity
BestFitLoopRemaining(bins, pkg_size, low, high, ans) ==
    IF low <= high
    THEN LET mid == (low + high) \div 2 IN
         IF bins[mid + 1].capacity - bins[mid + 1].used_space >= pkg_size
         THEN BestFitLoopRemaining(bins, pkg_size, low, mid - 1, mid)
         ELSE BestFitLoopRemaining(bins, pkg_size, mid + 1, high, ans)
    ELSE ans

RECURSIVE BestFitLoop(_, _, _, _, _)
\* the while loop of find_best_fit_bin
BestFitLoop(bins, pkg_size, low, high, ans) ==
    IF low <= high
    THEN LET mid == (low + high) \div 2 IN
         IF bins[mid + 1].capacity >= pkg_size
         THEN BestFitLoop(bins, pkg_size, low, mid - 1, mid)
         ELSE BestFitLoop(bins, pkg_size, mid + 1, high, ans)
    ELSE ans

\* find_best_fit_bin starting from the last index instead of -1 (ans = len - 1)
find_best_fit_bin_last(bins, pkg_size) ==
    BestFitLoop(bins, pkg_size, 0, Len(bins) - 1, Len(bins) - 1)

\* WarehouseController.find_best_fit_bin: 0-based index, -1 when not found
find_best_fit_bin(bins, pkg_size) ==
    BestFitLoop(bins, pkg_size, 0, Len(bins) - 1, -1)

----------------------------------------------------------------------------
(* try_load *)

RECURSIVE try_load_lt(_, _, _, _)
\* try_load leaving out an item that fits exactly (< for <=)
try_load_lt(pkgs, i, space, chosen) ==
    IF i = Len(pkgs)
    THEN [ok |-> Len(chosen) > 0 /\ space >= 0, chosen |-> chosen, pops |-> 0]
    ELSE LET pkg == pkgs[i + 1] IN
         IF pkg.size < space
         THEN LET inc == try_load_lt(pkgs, i + 1, space - pkg.size, Append(chosen, pkg)) IN
              IF inc.ok THEN inc
              ELSE LET exc == try_load_lt(pkgs, i + 1, space,
                                          SubSeq(inc.chosen, 1, Len(inc.chosen) - 1))
                   IN [exc EXCEPT !.pops = @ + inc.pops + 1]
         ELSE try_load_lt(pkgs, i + 1, space, chosen)

RECURSIVE try_load_exact(_, _, _, _)
\* try_load accepting only a subset that fills the space exactly (== 0 for >= 0)
try_load_exact(pkgs, i, space, chosen) ==
    IF i = Len(pkgs)
    THEN [ok |-> Len(chosen) > 0 /\ space = 0, chosen |-> chosen, pops |-> 0]
    ELSE LET pkg == pkgs[i + 1] IN
         IF pkg.size <= space
         THEN LET inc == try_load_exact(pkgs, i + 1, space - pkg.size, Append(chosen, pkg)) IN
              IF inc.ok THEN inc
              ELSE LET exc == try_load_exact(pkgs, i + 1, space,
                                             SubSeq(inc.chosen, 1, Len(inc.chosen) - 1))
                   IN [exc EXCEPT !.pops = @ + inc.pops + 1]
         ELSE try_load_exact(pkgs, i + 1, space, chosen)

RECURSIVE try_load(_, _, _, _)
\* WarehouseController.try_load; chosen is the shared list as the call leaves it,
\* pops counts the executions of chosen.pop()
try_load(pkgs, i, space, chosen) ==
    IF i = Len(pkgs)
    THEN [ok |-> Len(chosen) > 0 /\ space >= 0, chosen |-> chosen, pops |-> 0]
    ELSE LET pkg == pkgs[i + 1] IN
         IF pkg.size <= space
         THEN LET inc == try_load(pkgs, i + 1, space - pkg.size, Append(chosen, pkg)) IN
              IF inc.ok THEN inc
              ELSE LET exc == try_load(pkgs, i + 1, space,
                                       SubSeq(inc.chosen, 1, Len(inc.chosen) - 1))
                   IN [exc EXCEPT !.pops = @ + inc.pops + 1]
         ELSE try_load(pkgs, i + 1, space, chosen)

----------------------------------------------------------------------------
(* The database connection: shipment_logs under one open transaction *)

\* the row log_action inserts (the timestamp column is the wall clock and is left out)
LogRow(tracking_id, bin_id, status) ==
    [tracking_id |-> tracking_id, bin_id |-> bin_id, status |-> status]

\* WarehouseController.log_action: an INSERT into the open transaction
log_action(pending, tracking_id, bin_id, status) ==
    Append(pending, LogRow(tracking_id, bin_id, status))

\* the except branch forgetting db_connection.rollback(): the inserted rows stay
\* in the open transaction
EndTransactionKeep(committed, pending, raised) ==
    IF raised = "none"
    THEN [committed |-> committed \o pending, pending |-> <<>>]
    ELSE [committed |-> committed, pending |-> pending]

\* the except branch calling commit() for rollback(): the inserted rows are kept
EndTransactionCommit(committed, pending, raised) ==
    [committed |-> committed \o pending, pending |-> <<>>]

\* db_connection.commit() / db_connection.rollback() ending an operation:
\* raised = "none" means every statement and the commit went through
EndTransaction(committed, pending, raised) ==
    IF raised = "none"
    THEN [committed |-> committed \o pending, pending |-> <<>>]
    ELSE [committed |-> committed, pending |-> <<>>]

\* where an audit fault may strike in an operation that appends n rows:
\* 0 = nowhere, k in 1..n = the k-th log_action raises, n + 1 = commit raises
FaultPoints(n) == 0..(n + 1)

----------------------------------------------------------------------------
(* add_package *)

\* add_package putting the package at the front of the queue (appendleft)
add_package_front(package) ==
    /\ queue_incoming' = <<package>> \o queue_incoming
    /\ last' = [op |-> "add_package"]
    /\ UNCHANGED <<bin_inventory, stack_loading, trucks, db_committed, db_pending, unit>>

add_package(package) ==
    /\ queue_incoming' = Append(queue_incoming, package)
    /\ last' = [op |-> "add_package"]
    /\ UNCHANGED <<bin_inventory, stack_loading, trucks, db_committed, db_pending, unit>>

----------------------------------------------------------------------------
(* process_package *)

\* process_package logging the list index of the bin for its bin_id
ProcessResultIdx(bins, committed, pending, pkg, fault) ==
    LET idx == find_best_fit_bin(bins, pkg.size)
        res == IF idx = -1 THEN [ok |-> TRUE, unit |-> None]
               ELSE occupy_space(bins[idx + 1], pkg.size)
        bins1 == IF idx # -1 /\ res.ok THEN [bins EXCEPT ![idx + 1] = res.unit] ELSE bins
        raised == IF ~res.ok THEN "ValueError"
                  ELSE IF fault = 1 THEN "log_action"
                  ELSE IF fault = 2 THEN "commit"
                  ELSE "none"
        pending1 == IF raised \in {"none", "commit"}
                    THEN IF idx = -1
                         THEN log_action(pending, pkg.tracking_id, None, "NO_BIN")
                         ELSE log_action(pending, pkg.tracking_id, Some(idx),
                                         "BIN_ASSIGNED")
                    ELSE pending
        db == EndTransaction(committed, pending1, raised)
    IN [bins |-> bins1, committed |-> db.committed, pending |-> db.pending,
        idx |-> idx, placed |-> (idx # -1 /\ res.ok), raised |-> raised]

\* the body of process_package after popleft, for the package pkg;
\* fault: 0 none, 1 log_action raises, 2 commit raises
ProcessResult(bins, committed, pending, pkg, fault) ==
    LET idx == find_best_fit_bin(bins, pkg.size)
        res == IF idx = -1 THEN [ok |-> TRUE, unit |-> None]
               ELSE occupy_space(bins[idx + 1], pkg.size)
        bins1 == IF idx # -1 /\ res.ok THEN [bins EXCEPT ![idx + 1] = res.unit] ELSE bins
        raised == IF ~res.ok THEN "ValueError"
                  ELSE IF fault = 1 THEN "log_action"
                  ELSE IF fault = 2 THEN "commit"
                  ELSE "none"
        pending1 == IF raised \in {"none", "commit"}
                    THEN IF idx = -1
                         THEN log_action(pending, pkg.tracking_id, None, "NO_BIN")
                         ELSE log_action(pending, pkg.tracking_id,
                                         Some(bins[idx + 1].bin_id), "BIN_ASSIGNED")
                    ELSE pending
        db == EndTransaction(committed, pending1, raised)
    IN [bins |-> bins1, committed |-> db.committed, pending |-> db.pending,
        idx |-> idx, placed |-> (idx # -1 /\ res.ok), raised |-> raised]

\* process_package on an empty queue: "No packages left"
process_package_empty ==
    /\ queue_incoming = <<>>
    /\ last' = [op |-> "process_package", empty |-> TRUE]
    /\ UNCHANGED <<bin_inventory, queue_incoming, stack_loading, trucks,
                   db_committed, db_pending, unit>>

process_package(fault) ==
    /\ queue_incoming # <<>>
    /\ \E r \in {ProcessResult(bin_inventory, db_committed, db_pending,
                                Head(queue_incoming), fault)} :
          /\ (r.raised = "ValueError" => fault = 0)
          /\ queue_incoming' = Tail(queue_incoming)
          /\ bin_inventory' = r.bins
          /\ db_committed' = r.committed
          /\ db_pending' = r.pending
          /\ last' = [op |-> "process_package", empty |-> FALSE,
                      idx |-> r.idx, placed |-> r.placed, raised |-> r.raised]
    /\ UNCHANGED <<stack_loading, trucks, unit>>

----------------------------------------------------------------------------
(* load_fragile *)

RECURSIVE LoadLoopContinue(_, _, _, _, _)
\* the loop going on with the next item after a failed log_action
LoadLoopContinue(chosen, k, t, st, fault_at) ==
    IF k > Len(chosen) THEN st
    ELSE LET p == chosen[k]
             stack1 == Append(st.stack, [truck |-> t, pkg |-> p])
             res == occupy_space(st.truck, p.size)
         IN IF ~res.ok
            THEN [st EXCEPT !.stack = stack1, !.raised = "ValueError"]
            ELSE LoadLoopContinue(chosen, k + 1, t,
                     [st EXCEPT !.stack = stack1, !.truck = res.unit, !.applied = k,
                                !.raised = IF fault_at = k THEN "log_action" ELSE @,
                                !.pending = IF fault_at = k THEN @
                                            ELSE log_action(@, p.tracking_id, None,
                                                            "TRUCK_LOADED")],
                     fault_at)

RECURSIVE LoadLoop(_, _, _, _, _)
\* the for loop of load_fragile from its k-th item on; st is the state it has built
LoadLoop(chosen, k, t, st, fault_at) ==
    IF k > Len(chosen) THEN st
    ELSE LET p == chosen[k]
             stack1 == Append(st.stack, [truck |-> t, pkg |-> p])
             res == occupy_space(st.truck, p.size)
         IN IF ~res.ok
            THEN [st EXCEPT !.stack = stack1, !.raised = "ValueError"]
            ELSE IF fault_at = k
            THEN [st EXCEPT !.stack = stack1, !.truck = res.unit, !.applied = k,
                            !.raised = "log_action"]
            ELSE LoadLoop(chosen, k + 1, t,
                          [st EXCEPT !.stack = stack1, !.truck = res.unit, !.applied = k,
                                     !.pending = log_action(@, p.tracking_id, None,
                                                            "TRUCK_LOADED")],
                          fault_at)

\* the body of load_fragile once try_load has chosen
LoadResult(stack, truck, committed, pending, t, chosen, fault_at) ==
    LET st == LoadLoop(chosen, 1, t,
                       [stack |-> stack, truck |-> truck, pending |-> pending,
                        applied |-> 0, raised |-> "none"],
                       fault_at)
        raised == IF st.raised = "none" /\ fault_at = Len(chosen) + 1
                  THEN "commit" ELSE st.raised
        db == EndTransaction(committed, st.pending, raised)
    IN [stack |-> st.stack, truck |-> st.truck, committed |-> db.committed,
        pending |-> db.pending, applied |-> st.applied, raised |-> raised]

load_fragile(t, fragile_pkgs, fault_at) ==
    \E tl \in {try_load(fragile_pkgs, 0, remaining_space(trucks[t]), <<>>)} :
    IF ~tl.ok
    THEN /\ fault_at = 0
         /\ last' = [op |-> "load_fragile", truck |-> t, pkgs |-> fragile_pkgs,
                     feasible |-> FALSE, result |-> <<>>, applied |-> 0,
                     fault_at |-> 0, raised |-> "none"]
         /\ UNCHANGED <<bin_inventory, queue_incoming, stack_loading, trucks,
                        db_committed, db_pending, unit>>
    ELSE /\ fault_at \in FaultPoints(Len(tl.chosen))
         /\ \E r \in {LoadResult(stack_loading, trucks[t], db_committed, db_pending,
                                  t, tl.chosen, fault_at)} :
                    /\ stack_loading' = r.stack
               /\ trucks' = [trucks EXCEPT ![t] = r.truck]
               /\ db_committed' = r.committed
               /\ db_pending' = r.pending
               /\ last' = [op |-> "load_fragile", truck |-> t, pkgs |-> fragile_pkgs,
                           feasible |-> TRUE, result |-> tl.chosen,
                           applied |-> r.applied, fault_at |-> fault_at,
                           raised |-> r.raised]
         /\ UNCHANGED <<bin_inventory, queue_incoming, unit>>

----------------------------------------------------------------------------
(* rollback *)

RECURSIVE RollbackLoopLe(_, _, _)
\* the loop running once too often (removed <= count)
RollbackLoopLe(st, count, fault_at) ==
    IF st.stack # <<>> /\ (count = None \/ st.removed <= count[1])
    THEN LET e == st.stack[Len(st.stack)]
             stack1 == SubSeq(st.stack, 1, Len(st.stack) - 1)
             trucks1 == [st.trucks EXCEPT ![e.truck] = free_space(@, e.pkg.size)]
         IN IF fault_at = st.removed + 1
            THEN [st EXCEPT !.stack = stack1, !.trucks = trucks1, !.raised = "log_action"]
            ELSE RollbackLoopLe([st EXCEPT !.stack = stack1, !.trucks = trucks1,
                                           !.pending = log_action(@, e.pkg.tracking_id,
                                                                  None, "ROLLBACK"),
                                           !.removed = @ + 1],
                                count, fault_at)
    ELSE st

RECURSIVE RollbackLoopLogFirst(_, _, _)
\* the loop writing the ROLLBACK row before it releases the space (pop, log, free)
RollbackLoopLogFirst(st, count, fault_at) ==
    IF st.stack # <<>> /\ (count = None \/ st.removed < count[1])
    THEN LET e == st.stack[Len(st.stack)]
             stack1 == SubSeq(st.stack, 1, Len(st.stack) - 1)
             trucks1 == [st.trucks EXCEPT ![e.truck] = free_space(@, e.pkg.size)]
         IN IF fault_at = st.removed + 1
            THEN [st EXCEPT !.stack = stack1, !.raised = "log_action"]
            ELSE RollbackLoopLogFirst([st EXCEPT !.stack = stack1, !.trucks = trucks1,
                                                 !.pending = log_action(@, e.pkg.tracking_id,
                                                                        None, "ROLLBACK"),
                                                 !.removed = @ + 1],
                                      count, fault_at)
    ELSE st

RECURSIVE RollbackLoop(_, _, _)
\* the while loop of rollback; st.removed counts completed iterations
RollbackLoop(st, count, fault_at) ==
    IF st.stack # <<>> /\ (count = None \/ st.removed < count[1])
    THEN LET e == st.stack[Len(st.stack)]
             stack1 == SubSeq(st.stack, 1, Len(st.stack) - 1)
             trucks1 == [st.trucks EXCEPT ![e.truck] = free_space(@, e.pkg.size)]
         IN IF fault_at = st.removed + 1
            THEN [st EXCEPT !.stack = stack1, !.trucks = trucks1, !.raised = "log_action"]
            ELSE RollbackLoop([st EXCEPT !.stack = stack1, !.trucks = trucks1,
                                         !.pending = log_action(@, e.pkg.tracking_id,
                                                                None, "ROLLBACK"),
                                         !.removed = @ + 1],
                              count, fault_at)
    ELSE st

\* rollback that also writes a ROLLBACK row for the call itself
RollbackResultCallRow(stack, trs, committed, pending, count, fault_at) ==
    LET st == RollbackLoop([stack |-> stack, trucks |-> trs,
                            pending |-> log_action(pending, None, None, "ROLLBACK"),
                            removed |-> 0, raised |-> "none"],
                           count, fault_at)
        raised == IF st.raised = "none" /\ fault_at = st.removed + 1
                  THEN "commit" ELSE st.raised
        db == EndTransaction(committed, st.pending, raised)
    IN [stack |-> st.stack, trucks |-> st.trucks, committed |-> db.committed,
        pending |-> db.pending, removed |-> st.removed, raised |-> raised]

\* the body of rollback
RollbackResult(stack, trs, committed, pending, count, fault_at) ==
    LET st == RollbackLoop([stack |-> stack, trucks |-> trs, pending |-> pending,
                            removed |-> 0, raised |-> "none"],
                           count, fault_at)
        raised == IF st.raised = "none" /\ fault_at = st.removed + 1
                  THEN "commit" ELSE st.raised
        db == EndTransaction(committed, st.pending, raised)
    IN [stack |-> st.stack, trucks |-> st.trucks, committed |-> db.committed,
        pending |-> db.pending, removed |-> st.removed, raised |-> raised]

\* the number of entries a fault-free rollback(count) pops
Poppable(stack, count) ==
    IF count = None THEN Len(stack) ELSE Min(Max(count[1], 0), Len(stack))

rollback(count, fault_at) ==
    /\ fault_at \in FaultPoints(Poppable(stack_loading, count))
    /\ \E r \in {RollbackResult(stack_loading, trucks, db_committed, db_pending,
                                 count, fault_at)} :
          /\ stack_loading' = r.stack
          /\ trucks' = r.trucks
          /\ db_committed' = r.committed
          /\ db_pending' = r.pending
          /\ last' = [op |-> "rollback", count |-> count,
                      removed |-> r.removed, raised |-> r.raised]
    /\ UNCHANGED <<bin_inventory, queue_incoming, unit>>

----------------------------------------------------------------------------
(* The controller driven by an arbitrary caller *)

Sizes == 1..MaxSize
\* the caller's packages: tracking ids 1..MaxPkgs, sizes cycling through 1..MaxSize
Packages == {Package(i, ((i - 1) % MaxSize) + 1) : i \in 1..MaxPkgs}
Counts == {None} \cup {Some(n) : n \in 0..MaxCount}

\* the bounds of a run: the queue and the committed log stay within them
QueueBound == Len(queue_incoming') <= MaxQueue
LogBound == Len(db_committed') <= MaxLog

Init ==
    /\ \E caps \in [1..MaxBins -> 1..MaxCap] : bin_inventory = load_bins_from_db(caps)
    /\ queue_incoming = <<>>
    /\ stack_loading = <<>>
    /\ trucks = [t \in {1} |-> StorageUnit(TruckCap)]
    /\ db_committed = <<>>
    /\ db_pending = <<>>
    /\ unit = StorageUnit(0)
    /\ pc = 0
    /\ last = [op |-> "init"]

\* the caller is not main(): pc stays put
AddPackage == \E p \in Packages : add_package(p) /\ QueueBound /\ pc' = pc
ProcessEmpty == process_package_empty /\ pc' = pc
ProcessPackage == \E fault \in 0..2 : process_package(fault) /\ LogBound /\ pc' = pc
LoadFragile ==
    \E t \in DOMAIN trucks, ps \in SeqsUpTo(Packages, MaxFragile), f \in 0..(MaxFragile + 1) :
        load_fragile(t, ps, f) /\ LogBound /\ pc' = pc
Rollback ==
    \E c \in Counts, f \in 0..(Len(stack_loading) + 1) :
        rollback(c, f) /\ LogBound /\ pc' = pc

Next == AddPackage \/ ProcessEmpty \/ ProcessPackage \/ LoadFragile \/ Rollback

Spec == Init /\ [][Next]_vars

----------------------------------------------------------------------------
(* The controller on a database that never fails: no log_action and no commit raises *)

ProcessPackageOk == process_package(0) /\ LogBound /\ pc' = pc
LoadFragileOk ==
    \E t \in DOMAIN trucks, ps \in SeqsUpTo(Packages, MaxFragile) :
        load_fragile(t, ps, 0) /\ LogBound /\ pc' = pc
RollbackOk == \E c \in Counts : rollback(c, 0) /\ LogBound /\ pc' = pc

NextNoFault == AddPackage \/ ProcessEmpty \/ ProcessPackageOk \/ LoadFragileOk \/ RollbackOk

SpecNoFault == Init /\ [][NextNoFault]_vars

----------------------------------------------------------------------------
(* The loading stack alone: two trucks, load_fragile and rollback *)

InitTrucks ==
    /\ bin_inventory = <<>>
    /\ queue_incoming = <<>>
    /\ stack_loading = <<>>
    /\ trucks = [t \in 1..MaxTrucks |-> StorageUnit(TruckCap + t - 1)]
    /\ db_committed = <<>>
    /\ db_pending = <<>>
    /\ unit = StorageUnit(0)
    /\ pc = 0
    /\ last = [op |-> "init"]

NextTrucks == LoadFragile \/ Rollback

SpecTrucks == InitTrucks /\ [][NextTrucks]_vars

----------------------------------------------------------------------------
(* A single StorageUnit driven directly: occupy_space and free_space *)

UnitAmounts == 1..UnitMaxAmount

InitUnit ==
    /\ bin_inventory = <<>>
    /\ queue_incoming = <<>>
    /\ stack_loading = <<>>
    /\ trucks = <<>>
    /\ db_committed = <<>>
    /\ db_pending = <<>>
    /\ \E c \in 0..UnitMaxCap : unit = StorageUnit(c)
    /\ pc = 0
    /\ last = [op |-> "init"]

\* unit.occupy_space(amount); before is the unit as the call found it
UnitOccupy(amount) ==
    /\ \E r \in {occupy_space(unit, amount)} :
          /\ unit' = r.unit
          /\ last' = [op |-> "occupy_space", amount |-> amount, ok |-> r.ok,
                      before |-> unit]
    /\ UNCHANGED <<bin_inventory, queue_incoming, stack_loading, trucks,
                   db_committed, db_pending, pc>>

\* unit.free_space(amount); prev is the call just before it when that was an occupy_space
UnitFree(amount) ==
    /\ unit' = free_space(unit, amount)
    /\ last' = [op |-> "free_space", amount |-> amount, before |-> unit,
                prev |-> IF last.op = "occupy_space"
                         THEN Some([amount |-> last.amount, ok |-> last.ok,
                                    before |-> last.before])
                         ELSE None]
    /\ UNCHANGED <<bin_inventory, queue_incoming, stack_loading, trucks,
                   db_committed, db_pending, pc>>

NextUnit ==
    \/ \E a \in UnitAmounts : UnitOccupy(a)
    \/ \E a \in UnitAmounts : UnitFree(a)

SpecUnit == InitUnit /\ [][NextUnit]_vars

----------------------------------------------------------------------------
(* find_best_fit_bin on every bounded bin table *)

FitCaps == SeqsUpTo(1..FitMaxCap, FitMaxBins) \cup {DemoCaps}
FitSizes == (1..(FitMaxCap + 1)) \cup {15, 150}

InitFit ==
    /\ \E caps \in FitCaps : bin_inventory = load_bins_from_db(caps)
    /\ queue_incoming = <<>>
    /\ stack_loading = <<>>
    /\ trucks = <<>>
    /\ db_committed = <<>>
    /\ db_pending = <<>>
    /\ unit = StorageUnit(0)
    /\ pc = 0
    /\ last = [op |-> "init"]

\* one call per run, on the bin table as loaded
FindBestFit(pkg_size) ==
    /\ last.op = "init"
    /\ last' = [op |-> "find_best_fit_bin", pkg_size |-> pkg_size,
                result |-> find_best_fit_bin(bin_inventory, pkg_size)]
    /\ UNCHANGED <<bin_inventory, queue_incoming, stack_loading, trucks,
                   db_committed, db_pending, unit, pc>>

NextFit == \E s \in FitSizes : FindBestFit(s)

SpecFit == InitFit /\ [][NextFit]_vars

----------------------------------------------------------------------------
(* try_load on every bounded candidate list and budget *)

\* the packages of a candidate list with the given sizes: tracking id i for the i-th
Candidates(sizes) == [i \in 1..Len(sizes) |-> Package(i, sizes[i])]

LoadSizeLists == SeqsUpTo(1..LoadMaxSize, LoadMaxLen) \cup {<<5, 8, 9>>}
LoadBudgets == ((0 - 1)..LoadMaxBudget) \cup {13, 22}

InitLoad ==
    /\ bin_inventory = <<>>
    /\ queue_incoming = <<>>
    /\ stack_loading = <<>>
    /\ trucks = <<>>
    /\ db_committed = <<>>
    /\ db_pending = <<>>
    /\ unit = StorageUnit(0)
    /\ pc = 0
    /\ last = [op |-> "init"]

\* chosen = []; try_load(pkgs, 0, space, chosen), one call per run
TryLoad(pkgs, space) ==
    /\ last.op = "init"
    /\ \E r \in {try_load(pkgs, 0, space, <<>>)} :
          last' = [op |-> "try_load", pkgs |-> pkgs, space |-> space,
                   ok |-> r.ok, chosen |-> r.chosen, pops |-> r.pops]
    /\ UNCHANGED <<bin_inventory, queue_incoming, stack_loading, trucks,
                   db_committed, db_pending, unit, pc>>

NextLoad == \E sizes \in LoadSizeLists, space \in LoadBudgets : TryLoad(Candidates(sizes), space)

SpecLoad == InitLoad /\ [][NextLoad]_vars

----------------------------------------------------------------------------
(* main(): the demo run on a fresh database *)

\* p1 .. p5 of main()
DemoPackages ==
    <<Package("P001", 5), Package("P002", 12), Package("P003", 8),
      Package("P004", 25), Package("P005", 9)>>
\* fragile = [p1, p3, p5]
DemoFragile == <<DemoPackages[1], DemoPackages[3], DemoPackages[5]>>
\* Truck("T101", 40)
DemoTruckCap == 40

InitDemo ==
    /\ bin_inventory = load_bins_from_db(DemoCaps)
    /\ queue_incoming = <<>>
    /\ stack_loading = <<>>
    /\ trucks = [t \in {"T101"} |-> StorageUnit(DemoTruckCap)]
    /\ db_committed = <<>>
    /\ db_pending = <<>>
    /\ unit = StorageUnit(0)
    /\ pc = 0
    /\ last = [op |-> "init"]

\* for p in [p1, p2, p3, p4, p5]: w.add_package(p)
MainAdd ==
    /\ pc \in 0..4
    /\ add_package(DemoPackages[pc + 1])
    /\ pc' = pc + 1

\* for _ in range(5): w.process_package()
MainProcess ==
    /\ pc \in 5..9
    /\ \E fault \in 0..2 : process_package(fault)
    /\ pc' = pc + 1

\* w.load_fragile(truck, fragile)
MainLoad ==
    /\ pc = 10
    /\ \E f \in 0..(Len(DemoFragile) + 1) : load_fragile("T101", DemoFragile, f)
    /\ pc' = 11

\* w.rollback(1)
MainRollback ==
    /\ pc = 11
    /\ \E f \in 0..2 : rollback(Some(1), f)
    /\ pc' = 12

NextDemo == MainAdd \/ MainProcess \/ MainLoad \/ MainRollback

SpecDemo == InitDemo /\ [][NextDemo]_vars

----------------------------------------------------------------------------
(* The intake path alone: add_package and process_package *)

InitBins ==
    /\ \E caps \in [1..MaxBins -> 1..MaxCap] : bin_inventory = load_bins_from_db(caps)
    /\ queue_incoming = <<>>
    /\ stack_loading = <<>>
    /\ trucks = <<>>
    /\ db_committed = <<>>
    /\ db_pending = <<>>
    /\ unit = StorageUnit(0)
    /\ pc = 0
    /\ last = [op |-> "init"]

\* packages one size larger than the caller's usual ones, so that some fit no bin
BigPackages == Packages \cup {Package(MaxPkgs + 1, MaxCap + 1)}

AddBigPackage == \E p \in BigPackages : add_package(p) /\ QueueBound /\ pc' = pc

NextBins == AddBigPackage \/ ProcessEmpty \/ ProcessPackage

SpecBins == InitBins /\ [][NextBins]_vars

----------------------------------------------------------------------------
(* load_fragile statement by statement: pc is the line about to run, 0 between calls;
   last carries the locals of the running call (truck, chosen, the loop index k) *)

\* lines 197-202: chosen = []; try_load(...) decides between "return []" and the loop
LoadBegin(t, fragile_pkgs) ==
    /\ pc = 0
    /\ \E tl \in {try_load(fragile_pkgs, 0, remaining_space(trucks[t]), <<>>)} :
          /\ Len(db_committed) + Len(tl.chosen) <= MaxLog
          /\ pc' = IF tl.ok THEN 206 ELSE 0
          /\ last' = [op |-> "load_fragile", truck |-> t,
                      chosen |-> IF tl.ok THEN tl.chosen ELSE <<>>,
                      k |-> 1, raised |-> "none"]
    /\ UNCHANGED <<bin_inventory, queue_incoming, stack_loading, trucks,
                   db_committed, db_pending, unit>>

\* line 206: self.stack_loading.append((truck, p))
LoadAppend ==
    /\ pc = 206
    /\ stack_loading' = Append(stack_loading,
                               [truck |-> last.truck, pkg |-> last.chosen[last.k]])
    /\ pc' = 207
    /\ UNCHANGED <<bin_inventory, queue_incoming, trucks, db_committed, db_pending,
                   unit, last>>

\* line 207: truck.occupy_space(p.size); a ValueError goes to the except branch
LoadOccupy ==
    /\ pc = 207
    /\ \E r \in {occupy_space(trucks[last.truck], last.chosen[last.k].size)} :
          IF r.ok
          THEN /\ trucks' = [trucks EXCEPT ![last.truck] = r.unit]
               /\ pc' = 208
               /\ UNCHANGED <<db_committed, db_pending, last>>
          ELSE /\ db_committed' = EndTransaction(db_committed, db_pending, "ValueError").committed
               /\ db_pending' = EndTransaction(db_committed, db_pending, "ValueError").pending
               /\ pc' = 0
               /\ last' = [last EXCEPT !.raised = "ValueError"]
               /\ UNCHANGED trucks
    /\ UNCHANGED <<bin_inventory, queue_incoming, stack_loading, unit>>

\* line 208: self.log_action(p.tracking_id, None, "TRUCK_LOADED"), then the next
\* item or the commit; a failing INSERT goes to the except branch
LoadLog(fails) ==
    /\ pc = 208
    /\ IF fails
       THEN /\ db_committed' = EndTransaction(db_committed, db_pending, "log_action").committed
            /\ db_pending' = EndTransaction(db_committed, db_pending, "log_action").pending
            /\ pc' = 0
            /\ last' = [last EXCEPT !.raised = "log_action"]
       ELSE /\ db_pending' = log_action(db_pending, last.chosen[last.k].tracking_id,
                                        None, "TRUCK_LOADED")
            /\ db_committed' = db_committed
            /\ pc' = IF last.k < Len(last.chosen) THEN 206 ELSE 209
            /\ last' = IF last.k < Len(last.chosen) THEN [last EXCEPT !.k = @ + 1] ELSE last
    /\ UNCHANGED <<bin_inventory, queue_incoming, stack_loading, trucks, unit>>

\* lines 209-213: self.db_connection.commit(), or rollback() when it raises; return
LoadCommit(fails) ==
    /\ pc = 209
    /\ \E raised \in {IF fails THEN "commit" ELSE "none"} :
          /\ db_committed' = EndTransaction(db_committed, db_pending, raised).committed
          /\ db_pending' = EndTransaction(db_committed, db_pending, raised).pending
          /\ last' = [last EXCEPT !.raised = raised]
    /\ pc' = 0
    /\ UNCHANGED <<bin_inventory, queue_incoming, stack_loading, trucks, unit>>

\* rollback is called between two calls of load_fragile
RollbackBetween == pc = 0 /\ Rollback

NextSteps ==
    \/ \E t \in DOMAIN trucks, ps \in SeqsUpTo(Packages, MaxFragile) : LoadBegin(t, ps)
    \/ LoadAppend
    \/ LoadOccupy
    \/ \E fails \in BOOLEAN : LoadLog(fails)
    \/ \E fails \in BOOLEAN : LoadCommit(fails)
    \/ RollbackBetween

SpecSteps == InitTrucks /\ [][NextSteps]_vars

----------------------------------------------------------------------------
(* Claims *)

AllUnits ==
    {bin_inventory[i] : i \in 1..Len(bin_inventory)} \cup {trucks[t] : t \in DOMAIN trucks}

\* C1: in every state reached by add_package, process_package, load_fragile and
\* rollback, audit faults included, every bin and every truck has
\* 0 <= used_space <= capacity.
C1_UsedWithinCapacity ==
    \A u \in AllUnits : 0 <= u.used_space /\ u.used_space <= u.capacity

\* a full bin has just refused a package, and the truck carries a load
C1_Witness ==
    /\ last.op = "process_package" /\ ~last.empty /\ last.raised = "ValueError"
    /\ \E i \in 1..Len(bin_inventory) :
          bin_inventory[i].capacity > 0
          /\ bin_inventory[i].used_space = bin_inventory[i].capacity
    /\ \E t \in DOMAIN trucks : trucks[t].used_space > 0

\* C3: occupy_space(amount) raises exactly when used_space + amount > capacity and
\* then leaves the unit as it was; otherwise used_space grows by exactly amount
\* and nothing else changes.
C3_OccupyContract ==
    last.op = "occupy_space" =>
        /\ ~last.ok <=> last.before.used_space + last.amount > last.before.capacity
        /\ ~last.ok => unit = last.before
        /\ last.ok => /\ unit.used_space = last.before.used_space + last.amount
                      /\ unit.capacity = last.before.capacity
                      /\ DOMAIN unit = DOMAIN last.before

\* an exact fit has been accepted
C3_Witness ==
    /\ last.op = "occupy_space" /\ last.ok
    /\ last.before.used_space > 0
    /\ unit.used_space = unit.capacity

\* C4: after a successful occupy_space(amount), remaining_space() is
\* capacity - used_before - amount, and a following free_space(amount) restores
\* used_space and remaining_space() to their values before the reserve.
C4_RoundTrip ==
    /\ last.op = "occupy_space" /\ last.ok =>
           remaining_space(unit)
               = last.before.capacity - last.before.used_space - last.amount
    /\ (last.op = "free_space" /\ last.prev # None) =>
           LET occ == last.prev[1] IN
           (occ.ok /\ occ.amount = last.amount) =>
               /\ unit.used_space = occ.before.used_space
               /\ remaining_space(unit) = remaining_space(occ.before)
               /\ remaining_space(unit) = occ.before.capacity - occ.before.used_space

\* a reserve on a partly used unit has been released again
C4_Witness ==
    /\ last.op = "free_space" /\ last.prev # None
    /\ last.prev[1].ok /\ last.prev[1].amount = last.amount
    /\ last.prev[1].before.used_space > 0
    /\ unit = last.prev[1].before

\* the capacities of a bin list, in list order
Capacities(bins) == [i \in 1..Len(bins) |-> bins[i].capacity]

\* C2: on a capacity-sorted bin list find_best_fit_bin returns the index of a bin
\* whose capacity is the smallest one >= size, the leftmost among equal
\* capacities, and -1 exactly when no capacity is >= size; capacities
\* [10,20,50,100] give the capacity-20 bin for size 15 and -1 for size 150.
C2_BestFit ==
    last.op = "find_best_fit_bin" =>
        LET bins == bin_inventory
            size == last.pkg_size
            r == last.result
            fits == {j \in 1..Len(bins) : bins[j].capacity >= size}
        IN /\ r = -1 <=> fits = {}
           /\ r # -1 =>
                 /\ r + 1 \in fits
                 /\ \A j \in fits : bins[r + 1].capacity <= bins[j].capacity
                 /\ \A j \in 1..Len(bins) :
                       bins[j].capacity = bins[r + 1].capacity => r + 1 <= j
           /\ (Capacities(bins) = DemoCaps /\ size = 15) =>
                 r # -1 /\ bins[r + 1].capacity = 20
           /\ (Capacities(bins) = DemoCaps /\ size = 150) => r = -1

\* the best fit is the first of two bins of equal capacity, past a smaller bin
C2_Witness ==
    /\ last.op = "find_best_fit_bin"
    /\ last.result > 0
    /\ last.result + 2 <= Len(bin_inventory)
    /\ bin_inventory[last.result + 2].capacity = bin_inventory[last.result + 1].capacity
    /\ bin_inventory[last.result + 1].capacity > last.pkg_size

\* the items of pkgs at the indices in A, in input order
Restrict(pkgs, A) ==
    LET F[i \in 0..Len(pkgs)] ==
            IF i = 0 THEN <<>>
            ELSE IF i \in A THEN Append(F[i - 1], pkgs[i]) ELSE F[i - 1]
    IN F[Len(pkgs)]

\* the non-empty index sets of pkgs whose total size is within the budget
FeasibleSets(pkgs, space) ==
    {A \in SUBSET (1..Len(pkgs)) : A # {} /\ SumSizes(Restrict(pkgs, A)) <= space}

\* A is met before B by a traversal that includes each item before excluding it:
\* at the first item where they differ, A has it
MetBefore(A, B) ==
    \E i \in A \ B : \A j \in 1..(i - 1) : (j \in A) <=> (j \in B)

\* C5: try_load returns the first non-empty subset within the budget that an
\* include-first depth-first traversal meets, in input order (sizes [5,8,9] with
\* budget 13 give [5,8]), and reports infeasible exactly when no non-empty
\* subset fits, as when every single item is larger than the budget.
C5_FirstFeasible ==
    last.op = "try_load" =>
        LET pkgs == last.pkgs
            feasible == FeasibleSets(pkgs, last.space)
        IN /\ last.ok <=> feasible # {}
           /\ last.ok =>
                 \E A \in feasible :
                     /\ \A B \in feasible \ {A} : MetBefore(A, B)
                     /\ last.chosen = Restrict(pkgs, A)
           /\ (\A i \in 1..Len(pkgs) : pkgs[i].size > last.space) => ~last.ok
           /\ (pkgs = Candidates(<<5, 8, 9>>) /\ last.space = 13) =>
                 last.chosen = <<Package(1, 5), Package(2, 8)>>

\* the chosen subset skips an item that does not fit and takes a later one
C5_Witness ==
    /\ last.op = "try_load" /\ last.ok
    /\ Len(last.chosen) >= 2
    /\ last.chosen # SubSeq(last.pkgs, 1, Len(last.chosen))

\* what the controller owns besides the caller's position
Controller ==
    <<bin_inventory, queue_incoming, stack_loading, trucks, db_committed, db_pending>>

\* C6: when the loader finds no feasible subset (none exists within the truck's
\* remaining space), load_fragile returns an empty result and changes nothing:
\* the truck, every bin, the ledger and the audit log, committed and pending.
C6_InfeasibleNoMutation ==
    [][last'.op = "load_fragile" =>
          LET t == last'.truck
              budget == trucks[t].capacity - trucks[t].used_space
          IN /\ FeasibleSets(last'.pkgs, budget) = {} => ~last'.feasible
             /\ ~last'.feasible =>
                   /\ last'.result = <<>>
                   /\ UNCHANGED Controller]_vars

\* a partly loaded truck has refused a non-empty list, with rows in the log
C6_Witness ==
    /\ last.op = "load_fragile" /\ ~last.feasible
    /\ last.pkgs # <<>>
    /\ stack_loading # <<>>
    /\ db_committed # <<>>

\* the k most recent ledger entries, the most recent first
Popped(stack, k) == [i \in 1..k |-> stack[Len(stack) - i + 1]]

RECURSIVE ReleasedOn(_, _)
\* the total size of the entries that reference truck t
ReleasedOn(t, entries) ==
    IF entries = <<>> THEN 0
    ELSE (IF entries[1].truck = t THEN entries[1].pkg.size ELSE 0)
         + ReleasedOn(t, Tail(entries))

\* one ROLLBACK row per entry, in the order of the entries
RollbackRows(entries) ==
    [i \in 1..Len(entries) |-> LogRow(entries[i].pkg.tracking_id, None, "ROLLBACK")]

\* the step pops exactly the k most recent entries, releases each on its truck,
\* keeps the older entries, and commits their ROLLBACK rows iff logged
RollbackEffect(k, logged) ==
    /\ stack_loading' = SubSeq(stack_loading, 1, Len(stack_loading) - k)
    /\ \A t \in DOMAIN trucks :
          trucks'[t] = [trucks[t] EXCEPT
                           !.used_space = @ - ReleasedOn(t, Popped(stack_loading, k))]
    /\ db_committed' =
          db_committed \o (IF logged THEN RollbackRows(Popped(stack_loading, k)) ELSE <<>>)
    /\ db_pending' = <<>>

\* min(n, L), or L when no count is given
FullCount(count, L) == IF count = None THEN L ELSE Min(count[1], L)

\* C7 as stated: rollback(n) on a ledger of length L always removes exactly the
\* min(n, L) most recent entries (all of them without a count), last applied
\* first, releases each on its container and appends one ROLLBACK record for each.
C7_Original ==
    [][last'.op = "rollback" =>
          /\ RollbackEffect(FullCount(last'.count, Len(stack_loading)), TRUE)
          /\ (last'.count = None => stack_loading' = <<>>)]_vars

\* C7 amended: that holds of every call in which no audit append and no commit
\* fails; when the commit fails the same entries are popped and released but no
\* row is committed; when the append for the k-th popped entry fails, exactly k
\* entries (k <= min(n, L)) are popped and released and no row is committed.
C7_Rollback ==
    [][last'.op = "rollback" =>
          LET full == FullCount(last'.count, Len(stack_loading)) IN
          /\ last'.raised \in {"none", "commit", "log_action"}
          /\ last'.raised = "none" =>
                /\ last'.removed = full
                /\ RollbackEffect(full, TRUE)
                /\ (last'.count = None => stack_loading' = <<>>)
          /\ last'.raised = "commit" => RollbackEffect(full, FALSE)
          /\ last'.raised = "log_action" =>
                /\ last'.removed + 1 <= full
                /\ RollbackEffect(last'.removed + 1, FALSE)]_vars

\* rollback(1) on three entries has removed only the most recent one
C7_Witness ==
    /\ last.op = "rollback" /\ last.count = Some(1)
    /\ last.raised = "none" /\ last.removed = 1
    /\ Len(stack_loading) = 2
    /\ db_committed # <<>>
    /\ db_committed[Len(db_committed)].status = "ROLLBACK"

\* C8: rollback on an empty ledger, with or without a count, is a no-op that
\* returns normally: containers, ledger and audit log are unchanged (so a second
\* call finds the same state and is a no-op again); the only exception that can
\* arise, from the commit, is caught.
C8_EmptyRollbackNoOp ==
    [][(last'.op = "rollback" /\ stack_loading = <<>>) =>
          /\ UNCHANGED Controller
          /\ last'.removed = 0
          /\ last'.raised \in {"none", "commit"}]_vars

\* rollback() has run on an empty ledger while bins hold packages and the log has rows
C8_Witness ==
    /\ last.op = "rollback" /\ last.count = None
    /\ last.raised = "none" /\ last.removed = 0
    /\ stack_loading = <<>>
    /\ db_committed # <<>>
    /\ \E i \in 1..Len(bin_inventory) : bin_inventory[i].used_space > 0

\* C9 as stated: the five packages of main() go, in FIFO order, to the bins of
\* capacity 20, 20, 50, 50, 20.
C9_Original ==
    [][(pc \in 5..9 /\ pc' = pc + 1) =>
          /\ Head(queue_incoming) = DemoPackages[pc - 4]
          /\ last'.placed
          /\ bin_inventory[last'.idx + 1].capacity = <<20, 20, 50, 50, 20>>[pc - 4]]_vars

\* where main()'s packages go: the capacity of the bin, or None when not placed
DemoPlacement == <<Some(10), Some(20), None, Some(50), None>>

\* C9 amended: processed in FIFO order, the packages of size 5, 12 and 25 go to
\* the bins of capacity 10, 20 and 50; those of size 8 and 9 are placed in no
\* bin, their best-fit bin (capacity 10) lacking the remaining space.
C9_DemoPlacement ==
    [][(pc \in 5..9 /\ pc' = pc + 1) =>
          LET k == pc - 4
              pkg == Head(queue_incoming)
              i == last'.idx + 1
          IN /\ pkg = DemoPackages[k]
             /\ last'.idx # -1
             /\ IF DemoPlacement[k] = None
                THEN /\ ~last'.placed
                     /\ bin_inventory[i].capacity = 10
                     /\ bin_inventory' = bin_inventory
                ELSE /\ last'.placed
                     /\ bin_inventory[i].capacity = DemoPlacement[k][1]
                     /\ bin_inventory' =
                           [bin_inventory EXCEPT ![i].used_space = @ + pkg.size]
             /\ pc' = 10 =>
                   [j \in 1..Len(bin_inventory') |-> bin_inventory'[j].used_space]
                       = <<5, 12, 25, 0>>]_vars

\* the five packages are processed, the last one refused by the full bin
C9_Witness ==
    /\ pc = 10 /\ queue_incoming = <<>>
    /\ last.op = "process_package" /\ last.raised = "ValueError"
    /\ [j \in 1..Len(bin_inventory) |-> bin_inventory[j].used_space] = <<5, 12, 25, 0>>

\* C10 as stated: a placement by process_package grows the bin's used_space by
\* the package size, appends a (bin, package) entry to the ledger and appends a
\* BIN_ASSIGNED record naming the bin to the audit log.
C10_Original ==
    [][(last'.op = "process_package" /\ ~last'.empty /\ last'.placed) =>
          LET pkg == Head(queue_incoming)
              i == last'.idx + 1
          IN /\ bin_inventory'[i].used_space = bin_inventory[i].used_space + pkg.size
             /\ Len(stack_loading') = Len(stack_loading) + 1
             /\ stack_loading'[Len(stack_loading')].pkg = pkg
             /\ db_committed' =
                   Append(db_committed,
                          LogRow(pkg.tracking_id, Some(bin_inventory[i].bin_id),
                                 "BIN_ASSIGNED"))]_vars

\* C10 amended: a placement grows that bin's used_space by the package size and
\* leaves every other bin, the ledger and the trucks as they were; the
\* BIN_ASSIGNED record naming the bin is committed when neither the append nor
\* the commit fails, and no record is committed otherwise; no rollback changes
\* a bin, so a following rollback(1) does not release the reservation.
C10_Placement ==
    [][/\ (last'.op = "process_package" /\ ~last'.empty /\ last'.placed) =>
             LET pkg == Head(queue_incoming)
                 i == last'.idx + 1
             IN /\ bin_inventory' =
                       [bin_inventory EXCEPT ![i].used_space = @ + pkg.size]
                /\ UNCHANGED <<stack_loading, trucks>>
                /\ db_committed' =
                       IF last'.raised = "none"
                       THEN Append(db_committed,
                                   LogRow(pkg.tracking_id, Some(bin_inventory[i].bin_id),
                                          "BIN_ASSIGNED"))
                       ELSE db_committed
       /\ last'.op = "rollback" => bin_inventory' = bin_inventory]_vars

\* a package has been placed and logged while the top of the ledger is a truck load
C10_Witness ==
    /\ last.op = "process_package" /\ ~last.empty /\ last.placed
    /\ last.raised = "none"
    /\ stack_loading # <<>>
    /\ db_committed # <<>>
    /\ db_committed[Len(db_committed)].status = "BIN_ASSIGNED"

\* the step is a process_package call that took a package from the queue
Processed == last'.op = "process_package" /\ ~last'.empty

\* no bin of the inventory has the capacity for the package
FitsNoBin(pkg) == \A i \in 1..Len(bin_inventory) : bin_inventory[i].capacity < pkg.size

\* C11 as stated: a package larger than every bin's capacity changes no container
\* and no ledger, raises nothing, and has its batch committed with exactly one
\* NO_BIN record without a bin id.
C11_Original ==
    [][(Processed /\ FitsNoBin(Head(queue_incoming))) =>
          /\ UNCHANGED <<bin_inventory, stack_loading, trucks>>
          /\ last'.raised = "none"
          /\ db_committed' =
                Append(db_committed,
                       LogRow(Head(queue_incoming).tracking_id, None, "NO_BIN"))]_vars

\* C11 amended: a package larger than every bin's capacity changes no container
\* and no ledger and leaves the queue, and no exception reaches the caller; when
\* neither the audit append nor the commit fails the batch is committed with
\* exactly one NO_BIN record without a bin id, and when either fails the batch
\* is aborted and no record is committed.
C11_NoBin ==
    [][(Processed /\ FitsNoBin(Head(queue_incoming))) =>
          /\ UNCHANGED <<bin_inventory, stack_loading, trucks>>
          /\ queue_incoming' = Tail(queue_incoming)
          /\ last'.idx = -1 /\ ~last'.placed
          /\ last'.raised \in {"none", "log_action", "commit"}
          /\ db_pending' = <<>>
          /\ db_committed' =
                IF last'.raised = "none"
                THEN Append(db_committed,
                            LogRow(Head(queue_incoming).tracking_id, None, "NO_BIN"))
                ELSE db_committed]_vars

\* a NO_BIN record has been committed while a bin holds an earlier package
C11_Witness ==
    /\ last.op = "process_package" /\ ~last.empty
    /\ last.idx = -1 /\ last.raised = "none"
    /\ db_committed # <<>>
    /\ db_committed[Len(db_committed)] = LogRow(MaxPkgs + 1, None, "NO_BIN")
    /\ \E i \in 1..Len(bin_inventory) : bin_inventory[i].used_space > 0

\* the 1-based position of the leftmost bin of the smallest capacity >= the
\* package's size in the capacity-sorted inventory, 0 when there is none
FirstFit(pkg) ==
    LET fits == {j \in 1..Len(bin_inventory) : bin_inventory[j].capacity >= pkg.size}
    IN IF fits = {} THEN 0 ELSE CHOOSE j \in fits : \A k \in fits : j <= k

\* the bin selected by best fit lacks the remaining space for the package
SelectedBinFull(pkg) ==
    /\ FirstFit(pkg) # 0
    /\ bin_inventory[FirstFit(pkg)].capacity - bin_inventory[FirstFit(pkg)].used_space
           < pkg.size

\* C12: when the bin selected by best fit has too little remaining space and its
\* reserve fails, process_package treats the attempt as "no fit": nothing
\* propagates to the caller, no container is mutated, and a NO_BIN record for
\* the package is recorded in the audit log.
C12_FullBinRecordsNoBin ==
    [][(Processed /\ SelectedBinFull(Head(queue_incoming))) =>
          /\ UNCHANGED <<bin_inventory, trucks>>
          /\ last'.raised \in {"none", "ValueError"}
               => db_committed' =
                     Append(db_committed,
                            LogRow(Head(queue_incoming).tracking_id, None, "NO_BIN"))]_vars

\* one TRUCK_LOADED row per loaded package, in loading order
LoadedRows(pkgs) ==
    [i \in 1..Len(pkgs) |-> LogRow(pkgs[i].tracking_id, None, "TRUCK_LOADED")]

\* the audit records the operation of this step appends when nothing fails
BatchOf ==
    IF last'.op = "process_package" /\ ~last'.empty
    THEN LET pkg == Head(queue_incoming)
             j == FirstFit(pkg)
         IN IF j = 0 THEN <<LogRow(pkg.tracking_id, None, "NO_BIN")>>
            ELSE IF SelectedBinFull(pkg) THEN <<>>
            ELSE <<LogRow(pkg.tracking_id, Some(bin_inventory[j].bin_id), "BIN_ASSIGNED")>>
    ELSE IF last'.op = "load_fragile" THEN LoadedRows(last'.result)
    ELSE IF last'.op = "rollback"
    THEN RollbackRows(Popped(stack_loading, FullCount(last'.count, Len(stack_loading))))
    ELSE <<>>

\* C13: the audit records of every single operation are afterwards all in the
\* committed log (when nothing failed) or none of them is (when an append or the
\* commit failed), and every operation ends with no pending record, so that no
\* later commit persists records of an earlier aborted operation.
C13_BatchAtomicity ==
    [][/\ db_pending' = <<>>
       /\ db_committed' \in {db_committed, db_committed \o BatchOf}
       /\ last'.op \in {"process_package", "load_fragile", "rollback"} =>
             (db_committed' = db_committed \o BatchOf
                  <=> (BatchOf = <<>> \/ last'.raised = "none"))]_vars

\* a load of two packages was aborted by its second append, after an earlier
\* operation had committed: the first TRUCK_LOADED row is gone with the batch
C13_Witness ==
    /\ last.op = "load_fragile" /\ last.raised = "log_action" /\ last.applied = 2
    /\ db_pending = <<>>
    /\ db_committed # <<>>
    /\ \A i \in 1..Len(db_committed) : db_committed[i].status # "TRUCK_LOADED"

\* C14: when the audit append or the commit fails after the selected bin's
\* reserve succeeded, the batch is aborted (no record for the package is
\* committed), the bin's used_space stays increased by the package size, and the
\* package is gone from the queue: the reservation is not reversed.
C14_AbortGap ==
    [][(Processed /\ last'.raised \in {"log_action", "commit"}
            /\ FirstFit(Head(queue_incoming)) # 0) =>
          LET pkg == Head(queue_incoming)
              j == FirstFit(pkg)
          IN /\ last'.placed /\ last'.idx + 1 = j
             /\ bin_inventory' = [bin_inventory EXCEPT ![j].used_space = @ + pkg.size]
             /\ queue_incoming' = Tail(queue_incoming)
             /\ db_committed' = db_committed
             /\ db_pending' = <<>>]_vars

\* a failed commit has left a bin holding a package that no committed record names
C14_Witness ==
    /\ last.op = "process_package" /\ ~last.empty
    /\ last.placed /\ last.raised = "commit"
    /\ db_committed = <<>>
    /\ bin_inventory[last.idx + 1].used_space > 0

\* C15: process_package attempts exactly the one bin that best fit selects by
\* nominal capacity; when that bin's remaining space is smaller than the
\* package, the package is placed in no bin (every bin's used_space is
\* unchanged), even when a larger bin has the remaining space for it.
C15_NominalCapacityOnly ==
    [][(Processed /\ FirstFit(Head(queue_incoming)) # 0) =>
          LET pkg == Head(queue_incoming)
              j == FirstFit(pkg)
          IN /\ last'.idx + 1 = j
             /\ \A i \in 1..Len(bin_inventory) : i # j => bin_inventory'[i] = bin_inventory[i]
             /\ SelectedBinFull(pkg) =>
                   /\ ~last'.placed
                   /\ bin_inventory' = bin_inventory
                   /\ queue_incoming' = Tail(queue_incoming)]_vars

\* the selected bin has refused a package while a larger bin stands empty
C15_Witness ==
    /\ last.op = "process_package" /\ ~last.empty
    /\ last.idx # -1 /\ ~last.placed
    /\ \E i \in 1..Len(bin_inventory) :
          /\ bin_inventory[i].capacity > bin_inventory[last.idx + 1].capacity
          /\ bin_inventory[i].used_space = 0

\* C16: a ledger entry is created only after the reserve of its size on its
\* container has succeeded: in every reachable state, the states between the
\* statements of load_fragile and those after a failed audit append included,
\* the entries that reference a truck are covered by that truck's used_space,
\* and popping the latest entry and releasing its size does not need the clamp.
C16_EntryAfterReserve ==
    /\ \A t \in DOMAIN trucks : ReleasedOn(t, stack_loading) <= trucks[t].used_space
    /\ stack_loading # <<>> =>
          LET e == stack_loading[Len(stack_loading)]
          IN trucks[e.truck].used_space - e.pkg.size >= 0

RECURSIVE GreedyScan(_, _)
\* one left-to-right pass taking each item that fits the space still remaining
GreedyScan(pkgs, space) ==
    IF pkgs = <<>> THEN <<>>
    ELSE IF pkgs[1].size <= space
         THEN <<pkgs[1]>> \o GreedyScan(Tail(pkgs), space - pkgs[1].size)
         ELSE GreedyScan(Tail(pkgs), space)

\* the ledger entries of the first k items of chosen on truck t
EntriesOf(t, chosen, k) == [i \in 1..k |-> [truck |-> t, pkg |-> chosen[i]]]

\* C17: when the audit append fails while load_fragile applies the k-th chosen
\* item, items 1..k stay reserved on the truck and in the ledger, the items after
\* k are neither reserved nor in the ledger, no TRUCK_LOADED record of the
\* operation is committed, and the full chosen subset is returned all the same.
C17_PartialLoad ==
    [][(last'.op = "load_fragile" /\ last'.raised = "log_action") =>
          LET t == last'.truck
              chosen == GreedyScan(last'.pkgs, trucks[t].capacity - trucks[t].used_space)
              k == last'.fault_at
          IN /\ k \in 1..Len(chosen)
             /\ stack_loading' = stack_loading \o EntriesOf(t, chosen, k)
             /\ trucks' = [trucks EXCEPT
                               ![t].used_space = @ + SumSizes(SubSeq(chosen, 1, k))]
             /\ db_committed' = db_committed
             /\ db_pending' = <<>>
             /\ last'.result = chosen]_vars

\* the append for the first of two chosen items failed: one entry, two returned
C17_Witness ==
    /\ last.op = "load_fragile" /\ last.raised = "log_action"
    /\ last.fault_at = 1 /\ Len(last.result) = 2
    /\ stack_loading # <<>>
    /\ stack_loading[Len(stack_loading)] = [truck |-> last.truck, pkg |-> last.result[1]]
    /\ trucks[last.truck].used_space < SumSizes(last.result)

\* C18: for every candidate list with positive sizes and every budget >= 0,
\* try_load's result is that of a single greedy left-to-right scan taking each
\* item that fits the budget still remaining, and chosen.pop() is never executed.
C18_GreedyNoBacktrack ==
    (last.op = "try_load" /\ last.space >= 0
         /\ \A i \in 1..Len(last.pkgs) : last.pkgs[i].size > 0) =>
        /\ last.chosen = GreedyScan(last.pkgs, last.space)
        /\ last.ok <=> GreedyScan(last.pkgs, last.space) # <<>>
        /\ last.pops = 0

\* the subset returned is not the one that fills the most space
C18_Witness ==
    /\ last.op = "try_load" /\ last.ok /\ last.space >= 0
    /\ last.pops = 0
    /\ \E A \in FeasibleSets(last.pkgs, last.space) :
          SumSizes(Restrict(last.pkgs, A)) > SumSizes(last.chosen)

\* C19: after any sequence of completed load_fragile and rollback calls on trucks
\* that start empty, calls with a failing audit append or commit included, each
\* truck's used_space is the sum of the package sizes of the ledger entries that
\* reference it; so every truck is back at used_space 0 once the ledger is drained.
C19_LedgerConservation ==
    /\ \A t \in DOMAIN trucks : trucks[t].used_space = ReleasedOn(t, stack_loading)
    /\ stack_loading = <<>> => \A t \in DOMAIN trucks : trucks[t].used_space = 0

\* a rollback was cut short by a failing append and left entries of two trucks
C19_Witness ==
    /\ last.op = "rollback" /\ last.raised = "log_action"
    /\ last.removed >= 1
    /\ \A t \in DOMAIN trucks : ReleasedOn(t, stack_loading) > 0

\* the size of the caller's package with the given tracking id
SizeOf(tracking_id) == (CHOOSE p \in Packages : p.tracking_id = tracking_id).size

RECURSIVE AssignedTo(_, _)
\* the total size of the packages with a BIN_ASSIGNED row naming the bin
AssignedTo(bin_id, rows) ==
    IF rows = <<>> THEN 0
    ELSE (IF rows[1].status = "BIN_ASSIGNED" /\ rows[1].bin_id = Some(bin_id)
          THEN SizeOf(rows[1].tracking_id) ELSE 0)
         + AssignedTo(bin_id, Tail(rows))

\* C20: when no audit append or commit fails, after any sequence of add_package,
\* process_package, load_fragile and rollback from empty bins and an empty log,
\* each bin's used_space is the sum of the sizes of the packages with a committed
\* BIN_ASSIGNED record naming it, and every package taken from the queue has
\* exactly one committed record, BIN_ASSIGNED or NO_BIN.
C20_BinAuditConsistency ==
    [][/\ \A i \in 1..Len(bin_inventory') :
             bin_inventory'[i].used_space
                 = AssignedTo(bin_inventory'[i].bin_id, db_committed')
       /\ Processed =>
             \E status \in {"BIN_ASSIGNED", "NO_BIN"} :
                 /\ Len(db_committed') = Len(db_committed) + 1
                 /\ SubSeq(db_committed', 1, Len(db_committed)) = db_committed
                 /\ db_committed'[Len(db_committed')].tracking_id
                        = Head(queue_incoming).tracking_id
                 /\ db_committed'[Len(db_committed')].status = status]_vars

====
